---- MODULE Spec2Model ----
(***************************************************************************)
(* Price-list file browser: the App session gate, the Google Drive listing *)
(* service and the GoogleDrivePriceListManager component (files, loading,  *)
(* error, search, sort, current folder, breadcrumbs), with the listing     *)
(* requests that are in flight.                                            *)
(***************************************************************************)
EXTENDS Integers, Sequences, FiniteSets, TLC

(* ---------------------------------------------------------------- bounds *)
\* longest breadcrumb trail explored
MaxDepth == 3
\* most listing requests pending at one time (over all mounts of the browser)
MaxInFlight == 2
\* longest raw listing explored by the list-view specification
MaxFiles == 3
\* every byte count up to this one is formatted
MaxSmallSize == 1100
\* largest power of 1024 a raw byte count is scaled by
MaxKibi == 4

(* ------------------------------------------------------------- constants *)
FOLDER_ID == "1T_ahaYDTMRof2SZgzJPaV0BiRQQRpi2f"
MimeFolder == "application/vnd.google-apps.folder"
MimePdf == "application/pdf"
MimeXlsx == "application/vnd.openxmlformats-officedocument.spreadsheetml.sheet"
MimeXls == "application/vnd.ms-excel"
MimePng == "image/png"
AuthKeyValue == "authenticated"
LoadErrorMessage == "Dosyalar yuklenirken hata olustu"
SortOptions == {"name-asc", "name-desc", "date-asc", "date-desc"}
NoError == "null"
NoDate == -1
\* the Date that `new Date(text)` yields for a text it cannot parse
InvalidDate == -2
\* the instant `new Date()` yields; later than every modifiedTime below
Now == 9

(* ------------------------------------------------------ strings as data *)
\* A name is a sequence of characters.  "i0" stands for the dotless
\* lower-case i (U+0131); "I" is its upper case in Turkish, while
\* String.prototype.toLowerCase maps "I" to the dotted "i".
Chars == {"a", "A", "b", "B", "i0", "I", "i"}

LowerChar(c) ==
  CASE c = "A" -> "a"
    [] c = "B" -> "b"
    [] c = "I" -> "i"
    [] OTHER -> c

toLowerCase(s) == [k \in DOMAIN s |-> LowerChar(s[k])]

includes(hay, needle) ==
  \E start \in 0..(Len(hay) - Len(needle)) :
    SubSeq(hay, start + 1, start + Len(needle)) = needle

\* Turkish collation: primary weight is the letter (a < b < i0/I < i),
\* tertiary weight the case (lower before upper).
Primary(c) ==
  CASE c \in {"a", "A"} -> 1
    [] c \in {"b", "B"} -> 2
    [] c \in {"i0", "I"} -> 3
    [] OTHER -> 4

Tertiary(c) == IF c \in {"A", "B", "I"} THEN 1 ELSE 0

RECURSIVE LexCompare(_, _)
LexCompare(u, v) ==
  IF u = <<>> /\ v = <<>> THEN 0
  ELSE IF u = <<>> THEN -1
  ELSE IF v = <<>> THEN 1
  ELSE IF Head(u) < Head(v) THEN -1
  ELSE IF Head(u) > Head(v) THEN 1
  ELSE LexCompare(Tail(u), Tail(v))

localeCompare(s, t) ==
  LET p == LexCompare([k \in DOMAIN s |-> Primary(s[k])],
                      [k \in DOMAIN t |-> Primary(t[k])])
  IN IF p # 0 THEN p
     ELSE LexCompare([k \in DOMAIN s |-> Tertiary(s[k])],
                     [k \in DOMAIN t |-> Tertiary(t[k])])

(* ------------------------------------------------------- remote records *)
\* DriveFile.size is an optional string: absent, or the decimal text of a
\* byte count.  The count is value * 1024^kibi, which keeps every value
\* small while the count itself may be 1024^4 and more.
NoSize == [kind |-> "absent", value |-> 0, kibi |-> 0]
SizeOf(n) == [kind |-> "int", value |-> n, kibi |-> 0]
SizeOfKibi(n, k) == [kind |-> "int", value |-> n, kibi |-> k]
\* a non-empty size text that does not start with a digit, such as "abc"
SizeText == [kind |-> "text", value |-> 0, kibi |-> 0]

DriveFile(id, name, mime, size, time) ==
  [id |-> id, name |-> name, mimeType |-> mime, size |-> size,
   modifiedTime |-> time]

RawUniverse ==
  { DriveFile("F1", <<"b">>, MimeFolder, NoSize, 2),
    DriveFile("F2", <<"A">>, MimeFolder, SizeOf(1536), 1),
    DriveFile("D1", <<"a">>, MimePdf, SizeOf(1536), 3),
    DriveFile("D2", <<"a">>, MimeXlsx, NoSize, 1),
    DriveFile("D3", <<"I", "b">>, MimeXls, SizeOf(0), 2),
    DriveFile("D4", <<"a">>, MimePdf, SizeOf(1048576), 3),
    DriveFile("X1", <<"a", "b">>, MimePng, SizeOf(1024), 3) }

\* every response of at most n records with pairwise distinct identifiers
RECURSIVE RawListingsUpTo(_)
RawListingsUpTo(n) ==
  IF n = 0 THEN {<<>>}
  ELSE LET shorter == RawListingsUpTo(n - 1)
       IN shorter \cup
          { Append(l, r) : <<l, r>> \in
              { <<l, r>> \in shorter \X RawUniverse :
                  /\ Len(l) = n - 1
                  /\ \A k \in DOMAIN l : l[k].id # r.id } }

RawListings == RawListingsUpTo(MaxFiles)

\* the contents the remote folder takes while the browser is navigated
RemoteListings ==
  { <<>>,
    << DriveFile("D1", <<"a">>, MimePdf, SizeOf(1536), 3),
       DriveFile("F1", <<"b">>, MimeFolder, NoSize, 2),
       DriveFile("X1", <<"a", "b">>, MimePng, SizeOf(1024), 3) >>,
    << DriveFile("F2", <<"A">>, MimeFolder, SizeOf(1536), 1),
       DriveFile("D2", <<"a">>, MimeXlsx, NoSize, 1),
       DriveFile("F1", <<"b">>, MimeFolder, NoSize, 2) >> }

(* ------------------------------------------------- GoogleDriveService *)
\* The parent folder the listing URL names.  getFilesFromFolder declares
\* no parameter: the argument its caller passes is not read and the URL is
\* built from FOLDER_ID alone.
RequestParent(folderId) == FOLDER_ID

\* variant: the filter without the application/vnd.ms-excel line
IsSupportedNoXls(file) ==
  \/ file.mimeType = MimePdf
  \/ file.mimeType = MimeXlsx
  \/ file.mimeType = MimeFolder

IsSupported(file) ==
  \/ file.mimeType = MimePdf
  \/ file.mimeType = MimeXlsx
  \/ file.mimeType = MimeXls
  \/ file.mimeType = MimeFolder

\* data.files.filter(...) of a successful response
supportedFiles(dataFiles) == SelectSeq(dataFiles, IsSupported)

getFileViewUrl(fileId, mimeType) ==
  IF mimeType = MimeFolder THEN <<"drive/folders", fileId>>
  ELSE IF mimeType = MimePdf THEN <<"file/d/preview", fileId>>
  ELSE <<"spreadsheets/d/edit", fileId>>

getFileDownloadUrl(fileId) == <<"uc?export=download", fileId>>

(* ------------------------------------------------------- normalization *)
RECURSIVE FloorLog1024(_)
FloorLog1024(bytes) ==
  IF bytes < 1024 THEN 0 ELSE 1 + FloorLog1024(bytes \div 1024)

RECURSIVE Pow1024(_)
Pow1024(i) == IF i = 0 THEN 1 ELSE 1024 * Pow1024(i - 1)

SizeUnit(i) ==
  CASE i = 0 -> "Bytes"
    [] i = 1 -> "KB"
    [] i = 2 -> "MB"
    [] i = 3 -> "GB"
    [] OTHER -> "undefined"

\* parseInt(file.size): the number value * 1024^kibi, or NaN for a text
\* without leading digits
parseInt(size) ==
  [nan |-> size.kind = "text", value |-> size.value, kibi |-> size.kibi]

\* the text "NaN undefined"
NaNSize == [whole |-> 0, frac |-> <<>>, unit |-> "NaN undefined"]

\* variant: x.toFixed(2) + ' ' + sizes[i], which keeps both decimals
formatFileSizeFixed(bytes) ==
  IF bytes.nan THEN NaNSize
  ELSE IF bytes.value = 0 THEN [whole |-> 0, frac |-> <<>>, unit |-> "Bytes"]
  ELSE LET j == FloorLog1024(bytes.value)
           i == bytes.kibi + j
           d == Pow1024(j)
           h == (2 * 100 * bytes.value + d) \div (2 * d)
           f == h % 100
       IN [whole |-> h \div 100,
           frac |-> <<f \div 10, f % 10>>,
           unit |-> SizeUnit(i)]

\* parseFloat(x.toFixed(2)) + ' ' + sizes[i]: the value rounded to
\* hundredths and printed as a number, so trailing zeros of the fraction
\* are not printed.  With bytes = value * 1024^kibi the exponent i is
\* kibi + floor(log1024 value) and bytes / 1024^i = value / 1024^(i - kibi).
\* For NaN, i and the quotient are NaN: toFixed gives "NaN", sizes[NaN] is
\* undefined.
formatFileSize(bytes) ==
  IF bytes.nan THEN NaNSize
  ELSE IF bytes.value = 0 THEN [whole |-> 0, frac |-> <<>>, unit |-> "Bytes"]
  ELSE LET j == FloorLog1024(bytes.value)
           i == bytes.kibi + j
           d == Pow1024(j)
           h == (2 * 100 * bytes.value + d) \div (2 * d)
           f == h % 100
       IN [whole |-> h \div 100,
           frac |-> IF f = 0 THEN <<>>
                    ELSE IF f % 10 = 0 THEN <<f \div 10>>
                    ELSE <<f \div 10, f % 10>>,
           unit |-> SizeUnit(i)]

FolderSize == [whole |-> 0, frac |-> <<>>, unit |-> "-"]
UnknownSize == [whole |-> 0, frac |-> <<>>, unit |-> "Bilinmiyor"]

\* the map callback of loadFiles: one DriveFile to one PriceListFile
processFile(file) ==
  LET isFolder == file.mimeType = MimeFolder
      fileType == IF isFolder THEN "folder"
                  ELSE IF file.mimeType = MimePdf THEN "pdf" ELSE "excel"
  IN [id |-> file.id,
      name |-> file.name,
      type |-> fileType,
      size |-> IF file.size.kind # "absent"
               THEN formatFileSize(parseInt(file.size))
               ELSE IF isFolder THEN FolderSize ELSE UnknownSize,
      modifiedTime |-> file.modifiedTime,
      viewUrl |-> getFileViewUrl(file.id, file.mimeType),
      downloadUrl |-> getFileDownloadUrl(file.id),
      isFolder |-> isFolder]

processedFiles(driveFiles) ==
  [k \in DOMAIN driveFiles |-> processFile(driveFiles[k])]

\* a > b on Dates: false as soon as one of them is an Invalid Date
DateGreater(a, b) == a # InvalidDate /\ b # InvalidDate /\ a > b

\* a.getTime() - b.getTime() as the sort reads it: NaN counts as 0
TimeDifference(a, b) ==
  IF a = InvalidDate \/ b = InvalidDate THEN 0 ELSE a - b

RECURSIVE LatestFrom(_, _)
LatestFrom(fs, latest) ==
  IF fs = <<>> THEN latest
  ELSE LatestFrom(Tail(fs),
                  IF DateGreater(Head(fs).modifiedTime, latest)
                  THEN Head(fs).modifiedTime ELSE latest)

\* the value loadFiles passes to setLastUpdate
latestModification(fs) ==
  IF Len(fs) > 0 THEN LatestFrom(fs, fs[1].modifiedTime) ELSE Now

(* ------------------------------------------------------------ list view *)
\* variant: the two descending cases compare like the ascending ones
compareByOptionAscendingOnly(a, b, option) ==
  CASE option = "name-asc" -> localeCompare(a.name, b.name)
    [] option = "name-desc" -> localeCompare(a.name, b.name)
    [] option = "date-asc" -> TimeDifference(a.modifiedTime, b.modifiedTime)
    [] option = "date-desc" -> TimeDifference(a.modifiedTime, b.modifiedTime)
    [] OTHER -> 0

\* the switch of the comparator of sortFiles; only its sign is used
compareByOption(a, b, option) ==
  CASE option = "name-asc" -> localeCompare(a.name, b.name)
    [] option = "name-desc" -> localeCompare(b.name, a.name)
    [] option = "date-asc" -> TimeDifference(a.modifiedTime, b.modifiedTime)
    [] option = "date-desc" -> TimeDifference(b.modifiedTime, a.modifiedTime)
    [] OTHER -> 0

\* variant: the two folder checks are missing
compareFilesNoFolderFirst(a, b, option) == compareByOption(a, b, option)

compareFiles(a, b, option) ==
  IF a.isFolder /\ ~b.isFolder THEN -1
  ELSE IF ~a.isFolder /\ b.isFolder THEN 1
  ELSE compareByOption(a, b, option)

\* variant: an insertion that moves x in front of its equals
RECURSIVE InsertSortedUnstable(_, _, _)
InsertSortedUnstable(sorted, x, option) ==
  IF sorted = <<>> THEN <<x>>
  ELSE LET n == Len(sorted)
       IN IF compareFiles(sorted[n], x, option) >= 0
          THEN Append(InsertSortedUnstable(SubSeq(sorted, 1, n - 1), x, option),
                      sorted[n])
          ELSE Append(sorted, x)

\* Array.prototype.sort is a stable sort: x goes behind every element that
\* does not compare greater than it.
RECURSIVE InsertSorted(_, _, _)
InsertSorted(sorted, x, option) ==
  IF sorted = <<>> THEN <<x>>
  ELSE LET n == Len(sorted)
       IN IF compareFiles(sorted[n], x, option) > 0
          THEN Append(InsertSorted(SubSeq(sorted, 1, n - 1), x, option),
                      sorted[n])
          ELSE Append(sorted, x)

RECURSIVE SortInto(_, _, _)
SortInto(sorted, rest, option) ==
  IF rest = <<>> THEN sorted
  ELSE SortInto(InsertSorted(sorted, Head(rest), option), Tail(rest), option)

sortFiles(fs, option) == SortInto(<<>>, fs, option)

\* variant: the search term is not lower-cased
matchesSearchTermAsTyped(file, term) == includes(toLowerCase(file.name), term)

matchesSearch(file, term) ==
  includes(toLowerCase(file.name), toLowerCase(term))

project(fs, term, option) ==
  sortFiles(SelectSeq(fs, LAMBDA file : matchesSearch(file, term)), option)

(* ---------------------------------------------------------------- state *)
VARIABLES
  storage,          \* localStorage value under 'priceListAuth' ("absent" if none)
  isAuthenticated,  \* App state
  isLoading,        \* App state: the startup storage check has not run yet
  files,            \* browser state: PriceListFile[]
  loading,          \* browser state
  error,            \* browser state: message or NoError
  searchTerm,       \* browser state
  sortOption,       \* browser state
  lastUpdate,       \* browser state: instant or NoDate
  currentFolderId,  \* browser state: '' is the root
  breadcrumbs,      \* browser state: BreadcrumbItem[]
  inflight,         \* listing requests not yet settled, in start order
  lastOp            \* history: the handler or callback that ran last, with
                    \* the response body when it was a successful load

appVars == <<storage, isAuthenticated, isLoading>>
viewVars == <<searchTerm, sortOption>>
navVars == <<currentFolderId, breadcrumbs>>
loadVars == <<files, loading, error, lastUpdate>>
vars == <<storage, isAuthenticated, isLoading, files, loading, error,
          searchTerm, sortOption, lastUpdate, currentFolderId, breadcrumbs,
          inflight, lastOp>>

SearchTerms == {<<>>, <<"A">>, <<"I">>, <<"i", "B">>}
Secrets == {"correct", "wrong"}
StoredValues == {"absent", AuthKeyValue, "Authenticated", "other"}

\* App renders <GoogleDrivePriceListManager /> below its two early returns
Mounted == ~isLoading /\ isAuthenticated

\* variant: the main render is not held back while loading or in error
InteractiveWhileLoading == Mounted

\* the browser's main render: its inputs, rows and breadcrumb buttons exist
\* only below the `if (loading)` and `if (error)` early returns
Interactive == Mounted /\ ~loading /\ error = NoError

\* variant: the banner's button is rendered also while loading
ErrorShownWhileLoading == Mounted /\ (loading \/ error # NoError)

\* the error banner with its "Tekrar Dene" button
ErrorShown == Mounted /\ ~loading /\ error # NoError

filteredAndSortedFiles == project(files, searchTerm, sortOption)

Op(name, index, id, folderName, threw) ==
  [op |-> name, index |-> index, id |-> id, name |-> folderName,
   threw |-> threw, data |-> <<>>, n |-> 1 - lastOp.n]

(* --------------------------------------------------------- navigation *)
\* variant: the trail is replaced by the new entry
navigateToFolderReset(cur, crumbs, folderId, folderName) ==
  [currentFolderId |-> folderId,
   breadcrumbs |-> IF folderId = "" THEN <<>>
                   ELSE <<[id |-> folderId, name |-> folderName]>>,
   threw |-> FALSE]

\* variant: the new entry is put in front
navigateToFolderPrepend(cur, crumbs, folderId, folderName) ==
  [currentFolderId |-> folderId,
   breadcrumbs |-> IF folderId = "" THEN <<>>
                   ELSE <<[id |-> folderId, name |-> folderName]>> \o crumbs,
   threw |-> FALSE]

\* variant: the empty identifier is appended like any other
navigateToFolderNoRootCase(cur, crumbs, folderId, folderName) ==
  [currentFolderId |-> folderId,
   breadcrumbs |-> Append(crumbs, [id |-> folderId, name |-> folderName]),
   threw |-> FALSE]

\* The setters navigateToFolder calls, as the state they leave.
navigateToFolder(cur, crumbs, folderId, folderName) ==
  [currentFolderId |-> folderId,
   breadcrumbs |-> IF folderId = "" THEN <<>>
                   ELSE Append(crumbs, [id |-> folderId, name |-> folderName]),
   threw |-> FALSE]

\* Array.prototype.slice(0, end)
SliceTo(seq, end) ==
  LET e == IF end < 0 THEN (IF Len(seq) + end < 0 THEN 0 ELSE Len(seq) + end)
           ELSE IF end > Len(seq) THEN Len(seq) ELSE end
  IN SubSeq(seq, 1, e)

\* variant: prev.slice(0, index)
navigateToBreadcrumbSliceShort(cur, crumbs, index) ==
  IF index = -1
  THEN [currentFolderId |-> "", breadcrumbs |-> <<>>, threw |-> FALSE]
  ELSE IF index \in 0..(Len(crumbs) - 1)
  THEN [currentFolderId |-> crumbs[index + 1].id,
        breadcrumbs |-> SliceTo(crumbs, index),
        threw |-> FALSE]
  ELSE [currentFolderId |-> cur, breadcrumbs |-> crumbs, threw |-> TRUE]

\* variant: the trail is not truncated
navigateToBreadcrumbNoTruncate(cur, crumbs, index) ==
  IF index = -1
  THEN [currentFolderId |-> "", breadcrumbs |-> <<>>, threw |-> FALSE]
  ELSE IF index \in 0..(Len(crumbs) - 1)
  THEN [currentFolderId |-> crumbs[index + 1].id,
        breadcrumbs |-> crumbs,
        threw |-> FALSE]
  ELSE [currentFolderId |-> cur, breadcrumbs |-> crumbs, threw |-> TRUE]

\* variant: the target is read at the end of the trail
navigateToBreadcrumbWrongTarget(cur, crumbs, index) ==
  IF index = -1
  THEN [currentFolderId |-> "", breadcrumbs |-> <<>>, threw |-> FALSE]
  ELSE IF index \in 0..(Len(crumbs) - 1)
  THEN [currentFolderId |-> crumbs[Len(crumbs)].id,
        breadcrumbs |-> SliceTo(crumbs, index + 1),
        threw |-> FALSE]
  ELSE [currentFolderId |-> cur, breadcrumbs |-> crumbs, threw |-> TRUE]

\* variant: targetBreadcrumb?.id, so a missing entry does not throw
navigateToBreadcrumbNoThrow(cur, crumbs, index) ==
  IF index = -1
  THEN [currentFolderId |-> "", breadcrumbs |-> <<>>, threw |-> FALSE]
  ELSE [currentFolderId |-> IF index \in 0..(Len(crumbs) - 1)
                            THEN crumbs[index + 1].id ELSE "undefined",
        breadcrumbs |-> SliceTo(crumbs, index + 1),
        threw |-> FALSE]

\* index counts from 0 as in the source.  For an index with no entry,
\* breadcrumbs[index] is undefined and reading targetBreadcrumb.id throws a
\* TypeError before either setter is called.
navigateToBreadcrumb(cur, crumbs, index) ==
  IF index = -1
  THEN [currentFolderId |-> "", breadcrumbs |-> <<>>, threw |-> FALSE]
  ELSE IF index \in 0..(Len(crumbs) - 1)
  THEN [currentFolderId |-> crumbs[index + 1].id,
        breadcrumbs |-> SliceTo(crumbs, index + 1),
        threw |-> FALSE]
  ELSE [currentFolderId |-> cur, breadcrumbs |-> crumbs, threw |-> TRUE]

(* ------------------------------------------------------------ loadFiles *)
Request(folderId) ==
  [folderId |-> folderId, parent |-> RequestParent(folderId),
   superseded |-> FALSE, orphan |-> FALSE]

Supersede(reqs) == [k \in DOMAIN reqs |-> [reqs[k] EXCEPT !.superseded = TRUE]]
Orphan(reqs) == [k \in DOMAIN reqs |-> [reqs[k] EXCEPT !.orphan = TRUE]]
RemoveAt(reqs, i) == SubSeq(reqs, 1, i - 1) \o SubSeq(reqs, i + 1, Len(reqs))

\* loadFiles up to its await: setLoading(true), setError(null), request sent
loadFilesStart(folderId) ==
  /\ Len(inflight) < MaxInFlight
  /\ loading' = TRUE
  /\ error' = NoError
  /\ inflight' = Append(Supersede(inflight), Request(folderId))
  /\ UNCHANGED <<files, lastUpdate>>

\* useEffect(() => loadFiles(currentFolderId), [currentFolderId]) after a
\* render in which currentFolderId changed
useEffectCurrentFolder ==
  IF currentFolderId' # currentFolderId
  THEN loadFilesStart(currentFolderId')
  ELSE UNCHANGED <<files, loading, error, lastUpdate, inflight>>

\* first render of a new browser instance and its mount effect
MountBrowser ==
  /\ Len(inflight) < MaxInFlight
  /\ files' = <<>>
  /\ loading' = TRUE
  /\ error' = NoError
  /\ searchTerm' = <<>>
  /\ sortOption' = "date-desc"
  /\ lastUpdate' = NoDate
  /\ currentFolderId' = ""
  /\ breadcrumbs' = <<>>
  /\ inflight' = Append(Supersede(inflight), Request(""))

BrowserUnchanged ==
  UNCHANGED <<files, loading, error, searchTerm, sortOption, lastUpdate,
              currentFolderId, breadcrumbs>>

(* ------------------------------------------------------------------ App *)
Init ==
  /\ storage \in StoredValues
  /\ isAuthenticated = FALSE
  /\ isLoading = TRUE
  /\ files = <<>>
  /\ loading = TRUE
  /\ error = NoError
  /\ searchTerm = <<>>
  /\ sortOption = "date-desc"
  /\ lastUpdate = NoDate
  /\ currentFolderId = ""
  /\ breadcrumbs = <<>>
  /\ inflight = <<>>
  /\ lastOp = [op |-> "init", index |-> 0, id |-> "", name |-> <<>>,
               threw |-> FALSE, data |-> <<>>, n |-> 0]

\* variant: any stored value counts as a session
AppStartupAnyValue ==
  /\ isLoading
  /\ isLoading' = FALSE
  /\ UNCHANGED storage
  /\ IF storage # "absent"
     THEN isAuthenticated' = TRUE /\ MountBrowser
     ELSE UNCHANGED <<isAuthenticated, inflight>> /\ BrowserUnchanged
  /\ lastOp' = Op("AppStartup", 0, "", <<>>, FALSE)

\* variant: the browser is rendered whatever the flag says
AppStartupMountsAlways ==
  /\ isLoading
  /\ isLoading' = FALSE
  /\ UNCHANGED storage
  /\ isAuthenticated' = (storage = AuthKeyValue)
  /\ MountBrowser
  /\ lastOp' = Op("AppStartup", 0, "", <<>>, FALSE)

\* App's mount effect: read the flag, then leave the startup spinner
AppStartup ==
  /\ isLoading
  /\ isLoading' = FALSE
  /\ UNCHANGED storage
  /\ IF storage = AuthKeyValue
     THEN isAuthenticated' = TRUE /\ MountBrowser
     ELSE UNCHANGED <<isAuthenticated, inflight>> /\ BrowserUnchanged
  /\ lastOp' = Op("AppStartup", 0, "", <<>>, FALSE)

\* PasswordProtection submits a secret; on a match it stores the flag and
\* calls onAuthenticated (handleAuthenticated)
Authenticate(secret) ==
  /\ ~isLoading /\ ~isAuthenticated
  /\ IF secret = "correct"
     THEN /\ storage' = AuthKeyValue
          /\ isAuthenticated' = TRUE
          /\ MountBrowser
     ELSE UNCHANGED <<storage, isAuthenticated, inflight>> /\ BrowserUnchanged
  /\ UNCHANGED isLoading
  /\ lastOp' = Op("authenticate", 0, secret, <<>>, FALSE)

\* variant: setIsAuthenticated(false) without localStorage.removeItem
handleLogoutKeepsKey ==
  /\ Mounted
  /\ UNCHANGED storage
  /\ isAuthenticated' = FALSE
  /\ UNCHANGED isLoading
  /\ files' = <<>>
  /\ loading' = TRUE
  /\ error' = NoError
  /\ searchTerm' = <<>>
  /\ sortOption' = "date-desc"
  /\ lastUpdate' = NoDate
  /\ currentFolderId' = ""
  /\ breadcrumbs' = <<>>
  /\ inflight' = Orphan(inflight)
  /\ lastOp' = Op("handleLogout", 0, "", <<>>, FALSE)

\* the page is loaded again: every useState starts from its initial value,
\* localStorage is kept, the requests of the old page are gone
Reload ==
  /\ ~isLoading
  /\ UNCHANGED storage
  /\ isAuthenticated' = FALSE
  /\ isLoading' = TRUE
  /\ files' = <<>>
  /\ loading' = TRUE
  /\ error' = NoError
  /\ searchTerm' = <<>>
  /\ sortOption' = "date-desc"
  /\ lastUpdate' = NoDate
  /\ currentFolderId' = ""
  /\ breadcrumbs' = <<>>
  /\ inflight' = <<>>
  /\ lastOp' = Op("reload", 0, "", <<>>, FALSE)

\* the browser instance is discarded; its pending requests stay pending
handleLogout ==
  /\ Mounted
  /\ storage' = "absent"
  /\ isAuthenticated' = FALSE
  /\ UNCHANGED isLoading
  /\ files' = <<>>
  /\ loading' = TRUE
  /\ error' = NoError
  /\ searchTerm' = <<>>
  /\ sortOption' = "date-desc"
  /\ lastUpdate' = NoDate
  /\ currentFolderId' = ""
  /\ breadcrumbs' = <<>>
  /\ inflight' = Orphan(inflight)
  /\ lastOp' = Op("handleLogout", 0, "", <<>>, FALSE)

(* -------------------------------------------------------------- browser *)
\* a click on the "Ac" button of row k of the rendered grid
handleFileClick(k) ==
  /\ Interactive
  /\ k \in DOMAIN filteredAndSortedFiles
  /\ filteredAndSortedFiles[k].isFolder
  /\ Len(breadcrumbs) < MaxDepth
  /\ LET file == filteredAndSortedFiles[k]
         r == navigateToFolder(currentFolderId, breadcrumbs, file.id, file.name)
     IN /\ currentFolderId' = r.currentFolderId
        /\ breadcrumbs' = r.breadcrumbs
        /\ lastOp' = Op("navigateToFolder", 0, file.id, file.name, r.threw)
  /\ useEffectCurrentFolder
  /\ UNCHANGED <<appVars, viewVars>>

\* a click on "Ana Klasor" (index -1) or on breadcrumb button index
ClickBreadcrumb(index) ==
  /\ Interactive
  /\ Len(breadcrumbs) > 0
  /\ index \in -1..(Len(breadcrumbs) - 1)
  /\ LET r == navigateToBreadcrumb(currentFolderId, breadcrumbs, index)
     IN /\ currentFolderId' = r.currentFolderId
        /\ breadcrumbs' = r.breadcrumbs
        /\ lastOp' = Op("navigateToBreadcrumb", index, "", <<>>, r.threw)
  /\ useEffectCurrentFolder
  /\ UNCHANGED <<appVars, viewVars>>

\* variant: onClick={() => loadFiles()}
RetryRoot ==
  /\ ErrorShown
  /\ loadFilesStart("")
  /\ lastOp' = Op("retry", 0, currentFolderId, <<>>, FALSE)
  /\ UNCHANGED <<appVars, viewVars, navVars>>

\* "Tekrar Dene": loadFiles(currentFolderId)
Retry ==
  /\ ErrorShown
  /\ loadFilesStart(currentFolderId)
  /\ lastOp' = Op("retry", 0, currentFolderId, <<>>, FALSE)
  /\ UNCHANGED <<appVars, viewVars, navVars>>

\* variant: the search input is rendered above the loading early return
ChangeSearchTermWhileLoading(term) ==
  /\ Mounted
  /\ error = NoError
  /\ term # searchTerm
  /\ searchTerm' = term
  /\ lastOp' = Op("setSearchTerm", 0, "", term, FALSE)
  /\ UNCHANGED <<appVars, loadVars, navVars, sortOption, inflight>>

ChangeSearchTerm(term) ==
  /\ Interactive
  /\ term # searchTerm
  /\ searchTerm' = term
  /\ lastOp' = Op("setSearchTerm", 0, "", term, FALSE)
  /\ UNCHANGED <<appVars, loadVars, navVars, sortOption, inflight>>

\* variant: files.sort(...) without the copy, which reorders the stored array
ChangeSortOptionInPlace(option) ==
  /\ Interactive
  /\ option # sortOption
  /\ sortOption' = option
  /\ files' = sortFiles(files, option)
  /\ lastOp' = Op("setSortOption", 0, option, <<>>, FALSE)
  /\ UNCHANGED <<appVars, loading, error, lastUpdate, navVars, searchTerm,
                 inflight>>

ChangeSortOption(option) ==
  /\ Interactive
  /\ option # sortOption
  /\ sortOption' = option
  /\ lastOp' = Op("setSortOption", 0, option, <<>>, FALSE)
  /\ UNCHANGED <<appVars, loadVars, navVars, searchTerm, inflight>>

\* variant: the new entries are merged into the stored ones
FetchResolveMerge(i, data) ==
  /\ i \in DOMAIN inflight
  /\ inflight' = RemoveAt(inflight, i)
  /\ IF inflight[i].orphan
     THEN /\ UNCHANGED loadVars
          /\ lastOp' = Op("fetchDropped", 0, inflight[i].folderId, <<>>, FALSE)
     ELSE /\ LET new == processedFiles(supportedFiles(data))
             IN files' = new \o SelectSeq(files, LAMBDA f :
                                   \A k \in DOMAIN new : new[k].id # f.id)
          /\ lastUpdate' = latestModification(files')
          /\ loading' = FALSE
          /\ UNCHANGED error
          /\ lastOp' = [Op("fetchApplied", 0, inflight[i].folderId, <<>>, FALSE)
                          EXCEPT !.data = data]
  /\ UNCHANGED <<appVars, viewVars, navVars>>

\* the awaited request i succeeds with the response body data; a browser
\* instance that was unmounted meanwhile ignores its setters
FetchResolve(i, data) ==
  /\ i \in DOMAIN inflight
  /\ inflight' = RemoveAt(inflight, i)
  /\ IF inflight[i].orphan
     THEN /\ UNCHANGED loadVars
          /\ lastOp' = Op("fetchDropped", 0, inflight[i].folderId, <<>>, FALSE)
     ELSE /\ files' = processedFiles(supportedFiles(data))
          /\ lastUpdate' = latestModification(files')
          /\ loading' = FALSE
          /\ UNCHANGED error
          /\ lastOp' = [Op("fetchApplied", 0, inflight[i].folderId, <<>>, FALSE)
                          EXCEPT !.data = data]
  /\ UNCHANGED <<appVars, viewVars, navVars>>

\* variant: the catch block also calls setFiles([])
FetchRejectClearsFiles(i) ==
  /\ i \in DOMAIN inflight
  /\ inflight' = RemoveAt(inflight, i)
  /\ IF inflight[i].orphan
     THEN /\ UNCHANGED loadVars
          /\ lastOp' = Op("fetchDropped", 0, inflight[i].folderId, <<>>, TRUE)
     ELSE /\ error' = LoadErrorMessage
          /\ loading' = FALSE
          /\ files' = <<>>
          /\ UNCHANGED lastUpdate
          /\ lastOp' = Op("fetchFailed", 0, inflight[i].folderId, <<>>, TRUE)
  /\ UNCHANGED <<appVars, viewVars, navVars>>

\* variant: loadFiles without its finally block
FetchRejectKeepsLoading(i) ==
  /\ i \in DOMAIN inflight
  /\ inflight' = RemoveAt(inflight, i)
  /\ IF inflight[i].orphan
     THEN /\ UNCHANGED loadVars
          /\ lastOp' = Op("fetchDropped", 0, inflight[i].folderId, <<>>, TRUE)
     ELSE /\ error' = LoadErrorMessage
          /\ UNCHANGED <<loading, files, lastUpdate>>
          /\ lastOp' = Op("fetchFailed", 0, inflight[i].folderId, <<>>, TRUE)
  /\ UNCHANGED <<appVars, viewVars, navVars>>

\* the awaited request i fails: !response.ok or a transport failure
FetchReject(i) ==
  /\ i \in DOMAIN inflight
  /\ inflight' = RemoveAt(inflight, i)
  /\ IF inflight[i].orphan
     THEN /\ UNCHANGED loadVars
          /\ lastOp' = Op("fetchDropped", 0, inflight[i].folderId, <<>>, TRUE)
     ELSE /\ error' = LoadErrorMessage
          /\ loading' = FALSE
          /\ UNCHANGED <<files, lastUpdate>>
          /\ lastOp' = Op("fetchFailed", 0, inflight[i].folderId, <<>>, TRUE)
  /\ UNCHANGED <<appVars, viewVars, navVars>>

Next ==
  \/ AppStartup
  \/ \E secret \in Secrets : Authenticate(secret)
  \/ handleLogout
  \/ Reload
  \/ \E k \in 1..MaxFiles : handleFileClick(k)
  \/ \E index \in -1..(MaxDepth - 1) : ClickBreadcrumb(index)
  \/ Retry
  \/ \E term \in SearchTerms : ChangeSearchTerm(term)
  \/ \E option \in SortOptions : ChangeSortOption(option)
  \/ \E i \in 1..MaxInFlight, data \in RemoteListings : FetchResolve(i, data)
  \/ \E i \in 1..MaxInFlight : FetchReject(i)

Spec == Init /\ [][Next]_vars

(* ------------------------------------------- the handlers called directly *)
\* navigateToBreadcrumb called with any index, also one no button passes
CallNavigateToBreadcrumb(index) ==
  /\ Interactive
  /\ LET r == navigateToBreadcrumb(currentFolderId, breadcrumbs, index)
     IN /\ currentFolderId' = r.currentFolderId
        /\ breadcrumbs' = r.breadcrumbs
        /\ lastOp' = Op("navigateToBreadcrumb", index, "", <<>>, r.threw)
  /\ useEffectCurrentFolder
  /\ UNCHANGED <<appVars, viewVars>>

\* navigateToFolder('', '') : the return to the root
CallNavigateToRoot ==
  /\ Interactive
  /\ LET r == navigateToFolder(currentFolderId, breadcrumbs, "", <<>>)
     IN /\ currentFolderId' = r.currentFolderId
        /\ breadcrumbs' = r.breadcrumbs
        /\ lastOp' = Op("navigateToFolder", 0, "", <<>>, r.threw)
  /\ useEffectCurrentFolder
  /\ UNCHANGED <<appVars, viewVars>>

NextContract ==
  \/ Next
  \/ \E index \in -2..(MaxDepth + 1) : CallNavigateToBreadcrumb(index)
  \/ CallNavigateToRoot

SpecContract == Init /\ [][NextContract]_vars

(* ------------------------------------------------ the list view alone *)
\* a browser that has loaded any listing of at most MaxFiles records
InitView ==
  /\ storage = AuthKeyValue
  /\ isAuthenticated = TRUE
  /\ isLoading = FALSE
  /\ \E l \in RawListings :
       /\ files = processedFiles(supportedFiles(l))
       /\ lastOp = [op |-> "fetchApplied", index |-> 0, id |-> "",
                    name |-> <<>>, threw |-> FALSE, data |-> l, n |-> 0]
  /\ loading = FALSE
  /\ error = NoError
  /\ searchTerm = <<>>
  /\ sortOption = "date-desc"
  /\ lastUpdate = latestModification(files)
  /\ currentFolderId = ""
  /\ breadcrumbs = <<>>
  /\ inflight = <<>>

NextView ==
  \/ \E term \in SearchTerms : ChangeSearchTerm(term)
  \/ \E option \in SortOptions : ChangeSortOption(option)

SpecView == InitView /\ [][NextView]_vars

\* ---- the size column alone: one document of every size in SizeInputs
\* has been loaded; the view may then be searched and sorted
SizeInputs ==
  (0 .. MaxSmallSize) \cup
  {1536, 2047, 2048, 10240, 1047552, 1048570, 1048571, 1048575, 1048576,
   1048577, 1572864, 5242880, 10485760}

SizeListings ==
  { << DriveFile("D1", <<"a">>, MimePdf, SizeOf(n), 3) >> : n \in SizeInputs }

InitSize ==
  /\ storage = AuthKeyValue
  /\ isAuthenticated = TRUE
  /\ isLoading = FALSE
  /\ \E l \in SizeListings :
       /\ files = processedFiles(supportedFiles(l))
       /\ lastUpdate = latestModification(files)
       /\ lastOp = [op |-> "fetchApplied", index |-> 0, id |-> "",
                    name |-> <<>>, threw |-> FALSE, data |-> l, n |-> 0]
  /\ loading = FALSE
  /\ error = NoError
  /\ searchTerm = <<>>
  /\ sortOption = "date-desc"
  /\ currentFolderId = ""
  /\ breadcrumbs = <<>>
  /\ inflight = <<>>

NextSize ==
  \/ \E term \in SearchTerms : ChangeSearchTerm(term)
  \/ \E option \in SortOptions : ChangeSortOption(option)

SpecSize == InitSize /\ [][NextSize]_vars

\* ---- the unit of large documents: value * 1024^kibi bytes
UnitInputs == {1, 1023, 1536} \X (0 .. MaxKibi)

UnitListings ==
  { << DriveFile("D1", <<"a">>, MimePdf, SizeOfKibi(in[1], in[2]), 3) >> :
      in \in UnitInputs }

InitUnit ==
  /\ storage = AuthKeyValue
  /\ isAuthenticated = TRUE
  /\ isLoading = FALSE
  /\ \E l \in UnitListings :
       /\ files = processedFiles(supportedFiles(l))
       /\ lastUpdate = latestModification(files)
       /\ lastOp = [op |-> "fetchApplied", index |-> 0, id |-> "",
                    name |-> <<>>, threw |-> FALSE, data |-> l, n |-> 0]
  /\ loading = FALSE
  /\ error = NoError
  /\ searchTerm = <<>>
  /\ sortOption = "date-desc"
  /\ currentFolderId = ""
  /\ breadcrumbs = <<>>
  /\ inflight = <<>>

SpecUnit == InitUnit /\ [][NextSize]_vars

\* ---- batches with malformed fields: a size text that is no number, a
\* modifiedTime text that is no date, next to well-formed records
BatchUniverse ==
  { DriveFile("G1", <<"a">>, MimePdf, SizeText, 3),
    DriveFile("G2", <<"b">>, MimeXlsx, SizeOf(1536), InvalidDate),
    DriveFile("D1", <<"a">>, MimePdf, SizeOf(1536), 3),
    DriveFile("F1", <<"b">>, MimeFolder, NoSize, 2) }

BatchListings ==
  { l \in UNION { [1 .. n -> BatchUniverse] : n \in 1 .. 3 } :
      \A j, k \in DOMAIN l : j # k => l[j].id # l[k].id }

InitBatch ==
  /\ storage = AuthKeyValue
  /\ isAuthenticated = TRUE
  /\ isLoading = FALSE
  /\ \E l \in BatchListings :
       /\ files = processedFiles(supportedFiles(l))
       /\ lastUpdate = latestModification(files)
       /\ lastOp = [op |-> "fetchApplied", index |-> 0, id |-> "",
                    name |-> <<>>, threw |-> FALSE, data |-> l, n |-> 0]
  /\ loading = FALSE
  /\ error = NoError
  /\ searchTerm = <<>>
  /\ sortOption = "date-desc"
  /\ currentFolderId = ""
  /\ breadcrumbs = <<>>
  /\ inflight = <<>>

SpecBatch == InitBatch /\ [][NextSize]_vars

(* =============================================================== claims *)
IsPrefix(u, v) == Len(u) <= Len(v) /\ u = SubSeq(v, 1, Len(u))

\* C1: in every reachable state the breadcrumb trail is empty if and only
\* if the current folder identifier is the root sentinel ''.
C1_TrailEmptyIffRoot == (breadcrumbs = <<>>) <=> (currentFolderId = "")

\* C1 witness: a folder was entered and "Ana Klasor" brought the root back
C1_Witness_BackAtRoot ==
  /\ lastOp.op = "navigateToBreadcrumb"
  /\ lastOp.index = -1
  /\ breadcrumbs = <<>>
  /\ currentFolderId = ""

\* C2: whenever the trail is not empty, the identifier of its last entry is
\* the current folder identifier.
C2_LastCrumbIsCurrent ==
  breadcrumbs # <<>> => breadcrumbs[Len(breadcrumbs)].id = currentFolderId

\* C2 witness: a jump back to a breadcrumb left a trail of two entries
C2_Witness_AfterJump ==
  /\ lastOp.op = "navigateToBreadcrumb"
  /\ lastOp.index = 1
  /\ Len(breadcrumbs) = 2
  /\ breadcrumbs[2].id = currentFolderId

\* C3: a listing response is never applied once a newer request has been
\* started: the settling of a superseded request leaves files, loading,
\* error and lastUpdate as they are.
C3_StaleResponseDiscarded ==
  [][\A i \in DOMAIN inflight :
       (/\ inflight[i].superseded
        /\ inflight' = RemoveAt(inflight, i)
        /\ lastOp'.op \in {"fetchApplied", "fetchFailed", "fetchDropped"})
         => UNCHANGED <<files, loading, error, lastUpdate>>]_vars

\* C3 witness: request A was pending when a newer request B was started,
\* B's listing is displayed and A has then settled without effect
C3_Witness_StaleDropped ==
  /\ lastOp.op = "fetchDropped"
  /\ Mounted
  /\ ~loading
  /\ files # <<>>
  /\ inflight = <<>>

\* C4: every listing request names as parent the folder identifier it was
\* started for, and the configured root only for the empty identifier.
C4_RequestNamesFolder ==
  \A i \in DOMAIN inflight :
    inflight[i].parent = IF inflight[i].folderId = "" THEN FOLDER_ID
                         ELSE inflight[i].folderId

\* C5: navigateToFolder with a non-empty identifier makes that identifier
\* current and appends exactly one entry {id, name} to the previous trail.
C5_DescendAppends ==
  [][(lastOp'.op = "navigateToFolder" /\ lastOp'.id # "")
       => /\ currentFolderId' = lastOp'.id
          /\ breadcrumbs' =
               Append(breadcrumbs, [id |-> lastOp'.id, name |-> lastOp'.name])]_vars

\* C5 witness: a second folder was entered below a first one
C5_Witness_SecondDescend ==
  /\ lastOp.op = "navigateToFolder"
  /\ lastOp.id # ""
  /\ Len(breadcrumbs) = 2
  /\ breadcrumbs[2].id = lastOp.id

\* C6: navigateToBreadcrumb(index) with 0 <= index < breadcrumbs.length
\* makes breadcrumbs[index].id current and keeps exactly the entries
\* [0..index] of the trail.
C6_JumpTruncates ==
  [][(/\ lastOp'.op = "navigateToBreadcrumb"
      /\ lastOp'.index >= 0
      /\ lastOp'.index < Len(breadcrumbs))
       => /\ currentFolderId' = breadcrumbs[lastOp'.index + 1].id
          /\ breadcrumbs' = SubSeq(breadcrumbs, 1, lastOp'.index + 1)]_vars

\* C6 witness: after a descend, the jump to the first breadcrumb changed the
\* current folder (a new listing is being loaded) and left one entry
C6_Witness_JumpBelowNewest ==
  /\ lastOp.op = "navigateToBreadcrumb"
  /\ lastOp.index = 0
  /\ Len(breadcrumbs) = 1
  /\ loading

\* C7: navigateToBreadcrumb(index) with index < -1 or
\* index >= breadcrumbs.length leaves the current folder identifier and the
\* trail unchanged.
C7_OutOfRangeRejected ==
  [][(/\ lastOp'.op = "navigateToBreadcrumb"
      /\ (lastOp'.index < -1 \/ lastOp'.index >= Len(breadcrumbs)))
       => UNCHANGED <<currentFolderId, breadcrumbs>>]_vars

\* C7 witness: a call with an index beyond a non-empty trail has thrown
C7_Witness_Threw ==
  /\ lastOp.op = "navigateToBreadcrumb"
  /\ lastOp.threw
  /\ breadcrumbs # <<>>
  /\ lastOp.index >= Len(breadcrumbs)

\* C8: navigateToBreadcrumb(-1) and navigateToFolder('') leave the same
\* state from any navigation state: root sentinel, empty trail.
C8_SentinelIsJumpToRoot ==
  [][(\/ (lastOp'.op = "navigateToBreadcrumb" /\ lastOp'.index = -1)
      \/ (lastOp'.op = "navigateToFolder" /\ lastOp'.id = ""))
       => LET a == navigateToBreadcrumb(currentFolderId, breadcrumbs, -1)
              b == navigateToFolder(currentFolderId, breadcrumbs, "", <<>>)
          IN /\ a.currentFolderId = b.currentFolderId
             /\ a.breadcrumbs = b.breadcrumbs
             /\ currentFolderId' = b.currentFolderId
             /\ breadcrumbs' = b.breadcrumbs
             /\ currentFolderId' = ""
             /\ breadcrumbs' = <<>>]_vars

\* C8 witness: navigateToFolder('') was called inside a folder (the root is being loaded)
C8_Witness_JumpToRoot ==
  /\ lastOp.op = "navigateToFolder"
  /\ lastOp.id = ""
  /\ breadcrumbs = <<>>
  /\ currentFolderId = ""
  /\ loading

\* C9: every change of the trail appends one entry to the previous trail
\* or replaces it by a prefix of the previous trail.
C9_AppendOrTruncate ==
  [][\/ breadcrumbs' = breadcrumbs
     \/ /\ Len(breadcrumbs') = Len(breadcrumbs) + 1
        /\ IsPrefix(breadcrumbs, breadcrumbs')
     \/ IsPrefix(breadcrumbs', breadcrumbs)]_vars

\* C9 witness: a trail of three entries was cut back to two
C9_Witness_CutToTwo ==
  /\ lastOp.op = "navigateToBreadcrumb"
  /\ lastOp.index = 1
  /\ Len(breadcrumbs) = 2
  /\ loading

\* C10: in the projected list no non-folder entry stands before a folder
\* entry, for every listing, search term and sort key.
C10_FoldersFirst ==
  \A i, j \in DOMAIN filteredAndSortedFiles :
    (i < j /\ filteredAndSortedFiles[j].isFolder)
      => filteredAndSortedFiles[i].isFolder

\* C10 witness: a document precedes a folder in the stored entries, both
\* pass a non-empty search term and the sort key is not the initial one
C10_Witness_DocBeforeFolder ==
  /\ searchTerm # <<>>
  /\ sortOption = "name-asc"
  /\ \E i, j \in DOMAIN files :
       /\ i < j
       /\ ~files[i].isFolder
       /\ files[j].isFolder
       /\ matchesSearch(files[i], searchTerm)
       /\ matchesSearch(files[j], searchTerm)

\* position of the entry with identifier id in a list of entries
PosOf(entries, id) == CHOOSE k \in DOMAIN entries : entries[k].id = id

Shown(file) == matchesSearch(file, searchTerm)

\* C11 as stated: two entries of equal name and equal folder-status stand in
\* the projected list in the order of the stored entries, under any sort key.
C11_StableOnEqualNames ==
  \A i, j \in DOMAIN files :
    (/\ i < j
     /\ files[i].name = files[j].name
     /\ files[i].isFolder = files[j].isFolder
     /\ Shown(files[i]) /\ Shown(files[j]))
      => PosOf(filteredAndSortedFiles, files[i].id)
           < PosOf(filteredAndSortedFiles, files[j].id)

\* C11 amended: two entries of equal name and equal folder-status, and under
\* the two date keys of equal last-modified instant, stand in the projected
\* list in the order of the stored entries.
C11_StableOnEqualKeys ==
  \A i, j \in DOMAIN files :
    (/\ i < j
     /\ files[i].name = files[j].name
     /\ files[i].isFolder = files[j].isFolder
     /\ (sortOption \in {"date-asc", "date-desc"}
           => files[i].modifiedTime = files[j].modifiedTime)
     /\ Shown(files[i]) /\ Shown(files[j]))
      => PosOf(filteredAndSortedFiles, files[i].id)
           < PosOf(filteredAndSortedFiles, files[j].id)

\* C11 witness: under a date key, two shown documents of equal name and
\* instant with a later document stored between them
C11_Witness_EqualKeysApart ==
  /\ sortOption = "date-asc"
  /\ Len(files) = 3
  /\ files[1].name = files[3].name
  /\ files[1].isFolder = files[3].isFolder
  /\ files[1].modifiedTime = files[3].modifiedTime
  /\ files[2].modifiedTime < files[1].modifiedTime
  /\ ~files[2].isFolder /\ ~files[1].isFolder
  /\ \A k \in DOMAIN files : Shown(files[k])

\* two characters that differ at most in case
SameLetter(c, d) ==
  \/ c = d
  \/ {c, d} \in {{"a", "A"}, {"b", "B"}, {"i", "I"}}

EqualIgnoringCase(u, v) ==
  /\ Len(u) = Len(v)
  /\ \A k \in DOMAIN u : SameLetter(u[k], v[k])

ContainsIgnoringCase(name, term) ==
  \E start \in 0..(Len(name) - Len(term)) :
    EqualIgnoringCase(SubSeq(name, start + 1, start + Len(term)), term)

Occurrences(entries, file) ==
  Cardinality({k \in DOMAIN entries : entries[k] = file})

\* C12: an entry stands in the projected list (once) exactly if its name
\* contains the search term when case is ignored, the projected list holds
\* nothing else, and with the empty term it holds every entry once.
C12_ShownIffContainsTerm ==
  /\ \A k \in DOMAIN files :
       Occurrences(filteredAndSortedFiles, files[k]) =
         IF ContainsIgnoringCase(files[k].name, searchTerm) THEN 1 ELSE 0
  /\ \A p \in DOMAIN filteredAndSortedFiles :
       \E k \in DOMAIN files : files[k] = filteredAndSortedFiles[p]
  /\ searchTerm = <<>> => Len(filteredAndSortedFiles) = Len(files)

\* C12 witness: the term "iB" shows the entry named "Ib" and hides another
C12_Witness_MixedCaseTerm ==
  /\ searchTerm = <<"i", "B">>
  /\ Len(filteredAndSortedFiles) = 1
  /\ filteredAndSortedFiles[1].name = <<"I", "b">>
  /\ Len(files) = 3

\* C13: two entries of the same folder-status stand in the projected list
\* in the order of the active sort key: names non-decreasing (name-asc) or
\* non-increasing (name-desc) in Turkish collation, instants non-decreasing
\* (date-asc) or non-increasing (date-desc).
C13_GroupsOrderedByKey ==
  \A i, j \in DOMAIN filteredAndSortedFiles :
    LET a == filteredAndSortedFiles[i]
        b == filteredAndSortedFiles[j]
    IN (i < j /\ a.isFolder = b.isFolder) =>
         /\ sortOption = "name-asc" => localeCompare(a.name, b.name) <= 0
         /\ sortOption = "name-desc" => localeCompare(a.name, b.name) >= 0
         /\ sortOption = "date-asc" => a.modifiedTime <= b.modifiedTime
         /\ sortOption = "date-desc" => a.modifiedTime >= b.modifiedTime

\* C13 witness: under name-desc two documents of different names are shown
\* in the reverse of their stored order
C13_Witness_NameDescReorders ==
  /\ sortOption = "name-desc"
  /\ Len(filteredAndSortedFiles) >= 2
  /\ ~filteredAndSortedFiles[1].isFolder
  /\ ~filteredAndSortedFiles[2].isFolder
  /\ localeCompare(filteredAndSortedFiles[1].name,
                   filteredAndSortedFiles[2].name) > 0
  /\ PosOf(files, filteredAndSortedFiles[1].id)
       > PosOf(files, filteredAndSortedFiles[2].id)

\* C14: a change of the search term or of the sort key leaves the stored
\* entries, the current folder and the trail as they are and starts no
\* listing request.
C14_ViewChangeIsPure ==
  [][lastOp'.op \in {"setSearchTerm", "setSortOption"}
       => /\ files' = files
          /\ currentFolderId' = currentFolderId
          /\ breadcrumbs' = breadcrumbs
          /\ inflight' = inflight
          /\ loading' = loading
          /\ error' = error]_vars

\* C14 witness: inside a folder the sort key was changed while the stored
\* entries are not in the order of the new key
C14_Witness_SortChangedInFolder ==
  /\ lastOp.op = "setSortOption"
  /\ breadcrumbs # <<>>
  /\ files # sortFiles(files, sortOption)
  /\ inflight = <<>>

\* C15: every navigation step that changes the navigation state starts a
\* listing request for the new current folder.
C15_NavigationStartsFetch ==
  [][(/\ lastOp'.op \in {"navigateToFolder", "navigateToBreadcrumb"}
      /\ navVars' # navVars)
       => /\ Len(inflight') = Len(inflight) + 1
          /\ inflight'[Len(inflight')].folderId = currentFolderId'
          /\ loading']_vars

\* C16: a failed listing request sets the error, leaves the stored entries
\* and lastUpdate as they were and starts no request; while the error is
\* shown only the try-again button starts one.
C16_FailureSurfacesOnly ==
  [][/\ lastOp'.op = "fetchFailed"
          => /\ error' = LoadErrorMessage
             /\ ~loading'
             /\ files' = files
             /\ lastUpdate' = lastUpdate
             /\ Len(inflight') = Len(inflight) - 1
     /\ (ErrorShown /\ Len(inflight') > Len(inflight))
          => lastOp'.op = "retry"]_vars

\* C16 witness: a request has failed after an earlier listing was stored
C16_Witness_FailedAfterListing ==
  /\ lastOp.op = "fetchFailed"
  /\ ErrorShown
  /\ files # <<>>
  /\ breadcrumbs # <<>>
  /\ inflight = <<>>

\* C17: the request that fails is the one for the current folder, and
\* try-again starts that request again, leaves current folder and trail
\* unchanged and clears the error.
C17_RetrySameFolder ==
  [][/\ lastOp'.op = "fetchFailed" => lastOp'.id = currentFolderId
     /\ (lastOp.op = "fetchFailed" /\ lastOp'.op = "retry")
          => inflight'[Len(inflight')].folderId = lastOp.id
     /\ lastOp'.op = "retry"
          => /\ Len(inflight') = Len(inflight) + 1
             /\ inflight'[Len(inflight')] = Request(currentFolderId)
             /\ currentFolderId' = currentFolderId
             /\ breadcrumbs' = breadcrumbs
             /\ error # NoError
             /\ error' = NoError
             /\ loading'
             /\ files' = files]_vars

\* C17 witness: try-again was pressed inside a folder
C17_Witness_RetryInFolder ==
  /\ lastOp.op = "retry"
  /\ currentFolderId # ""
  /\ loading
  /\ error = NoError

\* C18: after a successful load the stored entries are, position by
\* position, the normalized records of that response and nothing else.
C18_FilesReplacedWholesale ==
  [][lastOp'.op = "fetchApplied"
       => LET recs == supportedFiles(lastOp'.data)
          IN /\ Len(files') = Len(recs)
             /\ \A k \in DOMAIN recs : files'[k] = processFile(recs[k])
             /\ ~loading']_vars

\* C18 witness: inside a folder a load has replaced a non-empty listing by
\* one that shares no entry with it
C18_Witness_ReplacedInFolder ==
  /\ lastOp.op = "fetchApplied"
  /\ breadcrumbs # <<>>
  /\ breadcrumbs[Len(breadcrumbs)].id = "F2"
  /\ files # <<>>
  /\ \A k \in DOMAIN files : files[k].id # "F2"

AllMimeTypes == {MimePdf, MimeXlsx, MimeXls, MimeFolder, MimePng}
RecordsOfTypes(data, types) == SelectSeq(data, LAMBDA r : r.mimeType \in types)
IdsOf(entries) == [k \in DOMAIN entries |-> entries[k].id]

\* C19 as stated: the entries of a load are the response records of two
\* document MIME types or the folder marker, in response order.
C19_TwoDocumentTypesKept ==
  lastOp.op = "fetchApplied"
    => \E m1, m2 \in AllMimeTypes \ {MimeFolder} :
         IdsOf(files) = IdsOf(RecordsOfTypes(lastOp.data, {m1, m2, MimeFolder}))

\* C19 amended: the entries of a load are the response records whose MIME
\* type is application/pdf, the xlsx type, application/vnd.ms-excel or the
\* folder marker, in response order; every other record is dropped.
C19_ThreeDocumentTypesKept ==
  lastOp.op = "fetchApplied"
    => /\ IdsOf(files) =
            IdsOf(RecordsOfTypes(lastOp.data,
                                 {MimePdf, MimeXlsx, MimeXls, MimeFolder}))
       /\ \A k \in DOMAIN lastOp.data :
            lastOp.data[k].mimeType \notin {MimePdf, MimeXlsx, MimeXls, MimeFolder}
              => \A j \in DOMAIN files : files[j].id # lastOp.data[k].id

\* C19 witness: a response of a pdf, an image and an xls sheet was loaded;
\* the image is dropped and the xls sheet is kept behind the pdf
C19_Witness_XlsKeptPngDropped ==
  /\ lastOp.op = "fetchApplied"
  /\ Len(lastOp.data) = 3
  /\ lastOp.data[1].mimeType = MimePdf
  /\ lastOp.data[2].mimeType = MimePng
  /\ lastOp.data[3].mimeType = MimeXls
  /\ IdsOf(files) = <<lastOp.data[1].id, lastOp.data[3].id>>

\* the size column of the one loaded document and the byte count it shows
LoadedBytes == lastOp.data[1].size.value
LoadedSize == files[1].size
UnitExponent(unit) ==
  CASE unit = "Bytes" -> 0 [] unit = "KB" -> 1 [] unit = "MB" -> 2
    [] unit = "GB" -> 3 [] OTHER -> -1
\* the printed number in hundredths
Hundredths(size) ==
  100 * size.whole +
    (IF Len(size.frac) = 0 THEN 0
     ELSE IF Len(size.frac) = 1 THEN 10 * size.frac[1]
     ELSE 10 * size.frac[1] + size.frac[2])
\* size is the byte count n over the largest power of 1024 not above n,
\* rounded to the nearest hundredth (a tie goes up), with that power's unit
ScaledAndRounded(n, size) ==
  LET i == UnitExponent(size.unit)
      d == Pow1024(i)
      h == Hundredths(size)
  IN /\ i >= 0
     /\ d <= n /\ n < 1024 * d
     /\ 2 * d * h <= 200 * n + d
     /\ 200 * n + d < 2 * d * (h + 1)
     /\ \A k \in DOMAIN size.frac : size.frac[k] \in 0 .. 9

\* C20 as stated: a positive byte count is shown scaled, with exactly 2
\* decimal places and the unit; 0 is shown as "0 Bytes".
C20_ExactlyTwoDecimals ==
  lastOp.op = "fetchApplied"
    => IF LoadedBytes = 0
       THEN LoadedSize = [whole |-> 0, frac |-> <<>>, unit |-> "Bytes"]
       ELSE /\ ScaledAndRounded(LoadedBytes, LoadedSize)
            /\ Len(LoadedSize.frac) = 2

\* C20 amended: a positive byte count is shown scaled and rounded to 2
\* decimal places, printed without trailing zeros of the fraction (no
\* fraction at all when it is zero), and the unit; 0 is "0 Bytes",
\* 1024 is "1 KB", 1536 is "1.5 KB", 1048576 is "1 MB".
C20_DecimalsWithoutTrailingZeros ==
  lastOp.op = "fetchApplied"
    => /\ IF LoadedBytes = 0
          THEN LoadedSize = [whole |-> 0, frac |-> <<>>, unit |-> "Bytes"]
          ELSE /\ ScaledAndRounded(LoadedBytes, LoadedSize)
               /\ Len(LoadedSize.frac) <= 2
               /\ LoadedSize.frac # <<>>
                    => LoadedSize.frac[Len(LoadedSize.frac)] # 0
       /\ LoadedBytes = 1024
            => LoadedSize = [whole |-> 1, frac |-> <<>>, unit |-> "KB"]
       /\ LoadedBytes = 1536
            => LoadedSize = [whole |-> 1, frac |-> <<5>>, unit |-> "KB"]
       /\ LoadedBytes = 1048576
            => LoadedSize = [whole |-> 1, frac |-> <<>>, unit |-> "MB"]

\* C20 witness: a document of 1536 bytes was loaded and shows "1.5 KB"
C20_Witness_OneAndAHalfKB ==
  /\ lastOp.op = "fetchApplied"
  /\ LoadedBytes = 1536
  /\ LoadedSize = [whole |-> 1, frac |-> <<5>>, unit |-> "KB"]

\* C21: the unit shown for a loaded document, whatever its byte count,
\* is one of Bytes, KB, MB, GB.
C21_UnitInTable ==
  lastOp.op = "fetchApplied"
    => files[1].size.unit \in {"Bytes", "KB", "MB", "GB"}

\* C22: in a loaded listing every folder shows the fixed placeholder
\* whatever its raw size field holds, and every document whose size field
\* is absent shows the unknown-size sentinel.
C22_FolderPlaceholderAlways ==
  lastOp.op = "fetchApplied"
    => \A k \in DOMAIN files : \A j \in DOMAIN lastOp.data :
         lastOp.data[j].id = files[k].id
           => /\ lastOp.data[j].mimeType = MimeFolder
                   => files[k].size = FolderSize
              /\ (/\ lastOp.data[j].mimeType # MimeFolder
                  /\ lastOp.data[j].size.kind = "absent")
                   => files[k].size = UnknownSize

\* C23: in a loaded batch every supported record has its entry, in
\* response order; an entry whose raw size is no integer text shows a size
\* sentinel, an entry whose raw timestamp is unparsable carries the invalid
\* date, and every well-formed record is normalized as usual.
C23_MalformedFieldsGetSentinels ==
  lastOp.op = "fetchApplied"
    => LET recs == RecordsOfTypes(lastOp.data,
                                  {MimePdf, MimeXlsx, MimeXls, MimeFolder})
       IN /\ IdsOf(files) = IdsOf(recs)
          /\ \A k \in DOMAIN recs :
               /\ recs[k].size.kind = "text"
                    => files[k].size \in {UnknownSize, FolderSize}
               /\ recs[k].modifiedTime = InvalidDate
                    => files[k].modifiedTime = InvalidDate
               /\ (recs[k].size.kind # "text" /\ recs[k].modifiedTime # InvalidDate)
                    => files[k] = processFile(recs[k])

\* C24: the startup check ends authenticated exactly when the value
\* stored under priceListAuth is "authenticated"; it writes nothing.
C24_SessionIffExactFlag ==
  [][lastOp'.op = "AppStartup"
       => /\ isAuthenticated' <=> (storage = AuthKeyValue)
          /\ ~isLoading'
          /\ storage' = storage]_vars

\* C24 witness: the startup check has run on a stored value that differs
\* from the flag only in case, and the session is not authenticated
C24_Witness_NearMissRejected ==
  /\ lastOp.op = "AppStartup"
  /\ storage = "Authenticated"
  /\ ~isLoading
  /\ ~isAuthenticated

\* C25: a wrong secret writes nothing and leaves the session closed; the
\* correct secret opens it and stores the flag, so that the startup check
\* after a reload opens it again; logout removes the key, and whenever the
\* session is closed after startup the stored value is not the flag.
C25_SignInReloadLogout ==
  [][/\ (lastOp'.op = "authenticate" /\ lastOp'.id # "correct")
          => /\ storage' = storage
             /\ ~isAuthenticated'
             /\ storage' # AuthKeyValue
     /\ (lastOp'.op = "authenticate" /\ lastOp'.id = "correct")
          => /\ isAuthenticated'
             /\ storage' = AuthKeyValue
     /\ lastOp'.op = "reload"
          => storage' = storage /\ isLoading' /\ ~isAuthenticated'
     /\ (lastOp.op = "reload" /\ lastOp'.op = "AppStartup")
          => (isAuthenticated' <=> storage = AuthKeyValue)
     /\ lastOp'.op = "handleLogout"
          => /\ storage' = "absent"
             /\ ~isAuthenticated']_vars

\* C25 witness: the startup check of a reloaded page (not the first step of
\* the behaviour) has opened the session from the stored flag
C25_Witness_ReloadKeepsSession ==
  /\ lastOp.op = "AppStartup"
  /\ lastOp.n = 0
  /\ isAuthenticated
  /\ storage = AuthKeyValue

\* C26 as stated: while the mounted browser is loading, the search input,
\* the sort select and the navigation buttons can still be used.
C26_ControlsAvailableWhilePending ==
  (Mounted /\ loading)
    => /\ ENABLED (\E term \in SearchTerms : ChangeSearchTerm(term))
       /\ ENABLED (\E option \in SortOptions : ChangeSortOption(option))
       /\ breadcrumbs # <<>> => ENABLED ClickBreadcrumb(-1)

\* C26 amended: while the mounted browser is loading, the only steps are
\* the completion of a request, logout and a reload of the page: no search,
\* sort, navigation or try-again step is taken.
C26_OnlySpinnerWhilePending ==
  [][(Mounted /\ loading)
       => lastOp'.op \in {"fetchApplied", "fetchFailed", "fetchDropped",
                          "handleLogout", "reload"}]_vars

\* C26 witness: inside a folder with a listing in memory a request of the
\* mounted browser is pending
C26_Witness_PendingInFolder ==
  /\ Mounted
  /\ loading
  /\ breadcrumbs # <<>>
  /\ files # <<>>
  /\ \E i \in DOMAIN inflight : ~inflight[i].orphan

\* the requests of the mounted browser that are still awaited
LiveRequests == SelectSeq(inflight, LAMBDA r : ~r.orphan)

\* C27: the mounted browser has at most one request in flight, and a row
\* click, a breadcrumb click or try-again that starts a request is taken
\* only while loading is false.
C27_OneFetchAtATime ==
  [][/\ Len(LiveRequests) <= 1
     /\ Len(LiveRequests') <= 1
     /\ (/\ lastOp'.op \in {"navigateToFolder", "navigateToBreadcrumb", "retry"}
         /\ Len(inflight') > Len(inflight))
          => /\ ~loading
             /\ LiveRequests = <<>>
             /\ Len(LiveRequests') = 1]_vars

\* C27 witness: try-again has started the only live request while a
\* request of an earlier, logged-out browser is still pending
C27_Witness_RetryBesideOrphan ==
  /\ lastOp.op = "retry"
  /\ Len(inflight) = 2
  /\ inflight[1].orphan
  /\ Len(LiveRequests) = 1
  /\ loading

\* C28: a request of the mounted browser that resolves leaves loading
\* false, the error null and the entries replaced by that response; one
\* that rejects leaves loading false and the error set; nothing else ends
\* the loading state of a mounted browser.
C28_FetchOutcome ==
  [][/\ lastOp'.op = "fetchApplied"
          => /\ loading /\ ~loading'
             /\ error' = NoError
             /\ files' = processedFiles(supportedFiles(lastOp'.data))
     /\ lastOp'.op = "fetchFailed"
          => /\ loading /\ ~loading'
             /\ error' # NoError
     /\ (Mounted /\ Mounted' /\ loading /\ ~loading')
          => lastOp'.op \in {"fetchApplied", "fetchFailed"}]_vars

\* C28 witness: the request of the mounted browser has resolved inside a
\* folder while a request of an earlier, logged-out browser is still pending
C28_Witness_ResolvedInFolder ==
  /\ lastOp.op = "fetchApplied"
  /\ currentFolderId # ""
  /\ ~loading
  /\ error = NoError
  /\ files # <<>>
  /\ Len(inflight) = 1

\* C29: the folder identifiers of the breadcrumb entries are pairwise
\* distinct.
C29_CrumbIdsDistinct ==
  \A j, k \in DOMAIN breadcrumbs :
    j # k => breadcrumbs[j].id # breadcrumbs[k].id

\* C30: a request is started, and the browser is mounted, only with the
\* startup check done and the session authenticated; logout unmounts the
\* browser, and startup and sign-in mount it at the root with an empty
\* trail and one request for the root.
C30_BrowserBehindGate ==
  [][/\ Len(inflight') > Len(inflight)
          => ~isLoading' /\ isAuthenticated'
     /\ (isLoading' \/ ~isAuthenticated') => Len(inflight') <= Len(inflight)
     /\ lastOp'.op = "handleLogout"
          => /\ ~Mounted'
             /\ \A i \in DOMAIN inflight' : inflight'[i].orphan
     /\ (~Mounted /\ Mounted')
          => /\ lastOp'.op \in {"AppStartup", "authenticate"}
             /\ currentFolderId' = ""
             /\ breadcrumbs' = <<>>
             /\ files' = <<>>
             /\ searchTerm' = <<>>
             /\ inflight'[Len(inflight')] = Request("")]_vars

\* C30 witness: after a logout from inside a folder, whose request is
\* still pending, a sign-in has mounted the browser at the root
C30_Witness_SignInAfterLogout ==
  /\ lastOp.op = "authenticate"
  /\ Mounted
  /\ Len(inflight) = 2
  /\ inflight[1].orphan
  /\ inflight[1].folderId # ""
  /\ currentFolderId = ""
  /\ breadcrumbs = <<>>

====
